---- MODULE Spec2Model ----
(***************************************************************************)
(* A model of the streaming HTML rewriter facade (src/src/rewriter/mod.rs): *)
(* HtmlRewriter::try_new / write / end with the finished / poisoned guard,  *)
(* on top of the transform pipeline (transform stream, tokenizer, selector  *)
(* matching VM, content handlers dispatcher, memory limiter), which is      *)
(* modelled from its specification.                                         *)
(***************************************************************************)
EXTENDS Integers, Sequences, FiniteSets, TLC

VARIABLES
    rewriter,           \* "none" before a successful try_new, "live" after
    finished,           \* HtmlRewriter.finished
    poisoned,           \* HtmlRewriter.poisoned
    encoding,           \* the encoding handed to the stream ("none" before)
    limiters,           \* the MemoryLimiter objects created: [created, max, current]
    refs,               \* who holds which limiter: [vm, stream], indices of limiters
    dispatcher,         \* ContentHandlersDispatcher: [element_handlers, doc_text,
                        \* doc_comments, doctype]
    selectors_ast,      \* selectors_vm::Ast: sequence of [selector, locator]
    stream,             \* TransformStream: [buffer, stack, active, in_text, tags]
    output,             \* the slices handed to the output sink, in order
    handlers_executed,  \* element handler invocations: <<start tag no., handler id>>
    content_log,        \* every content handler invocation: [kind, id, call, data, res]
    last,               \* the last API call and what it returned
    hist,               \* what has happened so far (calls made, errors returned)
    chunked_input,      \* the test harness's ChunkedInput: [input, chunks,
                        \* initialized, encoding]
    harness_last        \* the last call on the ChunkedInput and what it returned

vars == <<rewriter, finished, poisoned, encoding, limiters, refs, dispatcher,
          selectors_ast, stream, output, handlers_executed, content_log, last, hist,
          chunked_input, harness_last>>

\* the state of the rewriter, which the calls on a ChunkedInput leave alone
rewriter_vars ==
    <<rewriter, finished, poisoned, encoding, limiters, refs, dispatcher,
      selectors_ast, stream, output, handlers_executed, content_log, last, hist>>

\* the state of the harness, which the calls on a rewriter leave alone
harness_vars == <<chunked_input, harness_last>>

\* the limiter the transform stream holds, and the one the selector matching
\* VM holds
stream_limiter == refs.stream

vm_limiter == refs.vm

----------------------------------------------------------------------------
(* Bounds *)

\* the number of write / end calls made on one rewriter
MaxCalls == 4

----------------------------------------------------------------------------
(* Small helpers *)

Range(s) == {s[i] : i \in 1..Len(s)}

Drop(s, n) == SubSeq(s, n + 1, Len(s))

Take(s, n) == SubSeq(s, 1, n)

RECURSIVE Reverse(_)
Reverse(s) == IF s = <<>> THEN <<>> ELSE Append(Reverse(Tail(s)), Head(s))

\* index of the first c in s, 0 when s holds no c
FirstIdx(s, c) ==
    IF \E i \in 1..Len(s) : s[i] = c
    THEN CHOOSE i \in 1..Len(s) : s[i] = c /\ \A j \in 1..(i - 1) : s[j] # c
    ELSE 0

----------------------------------------------------------------------------
(* Encoding labels: try_encoding_from_str *)

\* the labels the model passes as Settings.encoding
Labels == {"utf-8", "latin1", "utf-16le", "utf-16be", "utf-16", "iso-2022-jp",
           "replacement", "iso-2022-kr", "hey-yo"}

\* Encoding::for_label: the encoding a label names, "none" for no encoding
for_label(label) ==
    CASE label = "utf-8"       -> "UTF-8"
      [] label = "latin1"      -> "windows-1252"
      [] label = "utf-16le"    -> "UTF-16LE"
      [] label = "utf-16"      -> "UTF-16LE"
      [] label = "utf-16be"    -> "UTF-16BE"
      [] label = "iso-2022-jp" -> "ISO-2022-JP"
      [] label = "replacement" -> "replacement"
      [] label = "iso-2022-kr" -> "replacement"
      [] OTHER                 -> "none"

\* Encoding::for_label_no_replacement: as for_label, but a label of the
\* replacement encoding yields no encoding
for_label_no_replacement(label) ==
    IF for_label(label) = "replacement" THEN "none" ELSE for_label(label)

\* Encoding::is_ascii_compatible
is_ascii_compatible(enc) ==
    enc \notin {"replacement", "UTF-16BE", "UTF-16LE", "ISO-2022-JP"}

\* a mutant: the ASCII compatibility test is skipped
try_encoding_from_str_nocheck(label) ==
    IF for_label_no_replacement(label) = "none"
    THEN [ok |-> FALSE, err |-> "UnknownEncoding", enc |-> "none"]
    ELSE [ok |-> TRUE, err |-> "none", enc |-> for_label_no_replacement(label)]

try_encoding_from_str(label) ==
    LET enc == for_label_no_replacement(label) IN
    IF enc = "none"
    THEN [ok |-> FALSE, err |-> "UnknownEncoding", enc |-> "none"]
    ELSE IF is_ascii_compatible(enc)
         THEN [ok |-> TRUE, err |-> "none", enc |-> enc]
         ELSE [ok |-> FALSE, err |-> "NonAsciiCompatibleEncoding", enc |-> "none"]

----------------------------------------------------------------------------
(* Input bytes and the tokenizer *)

Letter == {"a", "b"}

\* "!" opens a markup declaration; "D" stands for the keyword of a doctype
Byte == {"<", ">", "/", "!", "D"} \cup Letter

\* the bytes a tag name starts with
NameStart == Letter \cup {"D"}

\* the bytes handlers insert: "Z" is content inserted after a text node, "1"
\* is text appended to a comment
Inserted == <<"Z">>

CommentSuffix == <<"1">>

\* what an element handler changes: "F" is an attribute it sets on the start
\* tag, and the Html it prepends to the element is a tag pair of its own
Attribute == <<"F">>

Prepended == <<"<", "t", ">", "<", "/", "t", ">">>

\* a start tag serialized anew with the attribute the handler set
WithAttribute(tag) == Take(tag, Len(tag) - 1) \o Attribute \o <<">">>

\* the name of a tag: the bytes of s up to the first "/" (s holds no ">")
TagName(s) ==
    IF FirstIdx(s, "/") = 0 THEN s ELSE Take(s, FirstIdx(s, "/") - 1)

\* a tag-like construct starting at the head of buf runs to the first ">";
\* name is the name of a tag, the text of a comment, the data of a doctype
UpToGt(buf, kind, from) ==
    LET k == FirstIdx(buf, ">") IN
    IF k = 0
    THEN [kind |-> "Incomplete", len |-> 0, name |-> <<>>]
    ELSE [kind |-> kind, len |-> k,
          name |-> IF kind = "Other" THEN <<>>
                   ELSE IF kind \in {"Comment", "Doctype"} THEN SubSeq(buf, from, k - 1)
                   ELSE TagName(SubSeq(buf, from, k - 1))]

\* the next lexeme at the head of the buffer: its kind, its length in bytes
\* and, for a tag, its name. "Incomplete" when the tail of the buffer holds
\* an incomplete construct, "None" when the buffer is empty.
NextLexeme(buf) ==
    IF buf = <<>> THEN [kind |-> "None", len |-> 0, name |-> <<>>]
    ELSE IF buf[1] # "<"
    THEN [kind |-> "Text",
          len |-> IF FirstIdx(buf, "<") = 0 THEN Len(buf) ELSE FirstIdx(buf, "<") - 1,
          name |-> <<>>]
    ELSE IF Len(buf) = 1 THEN [kind |-> "Incomplete", len |-> 0, name |-> <<>>]
    ELSE IF buf[2] \in NameStart THEN UpToGt(buf, "StartTag", 2)
    ELSE IF buf[2] = "/"
    THEN IF Len(buf) = 2 THEN [kind |-> "Incomplete", len |-> 0, name |-> <<>>]
         ELSE IF buf[3] \in NameStart THEN UpToGt(buf, "EndTag", 3)
         ELSE UpToGt(buf, "Other", 3)
    ELSE IF buf[2] = "!"
    THEN IF Len(buf) = 2 THEN [kind |-> "Incomplete", len |-> 0, name |-> <<>>]
         ELSE IF buf[3] = "D" THEN UpToGt(buf, "Doctype", 4)
         ELSE UpToGt(buf, "Comment", 3)
    ELSE [kind |-> "Text", len |-> 1, name |-> <<>>]

\* what the incomplete construct left in the buffer becomes at the end of the
\* input: an unterminated doctype or comment is emitted as such, with what
\* was read of it; an incomplete tag becomes text
EofLexeme(buf) ==
    IF Len(buf) >= 3 /\ buf[2] = "!" /\ buf[3] = "D"
    THEN [kind |-> "Doctype", len |-> Len(buf), name |-> SubSeq(buf, 4, Len(buf))]
    ELSE IF Len(buf) >= 2 /\ buf[2] = "!"
    THEN [kind |-> "Comment", len |-> Len(buf), name |-> SubSeq(buf, 3, Len(buf))]
    ELSE [kind |-> "Text", len |-> Len(buf), name |-> <<>>]

----------------------------------------------------------------------------
(* Selectors *)

\* the type selectors of the model and the universal selector
Selectors == {"*", "a", "b"}

\* does the selector match an element of that name
Matches(selector, name) == selector = "*" \/ name = <<selector>>

\* SelectorMatchingVm: the locators of the selectors that match a start tag
MatchedLocators(ast, name) ==
    {ast[i].locator : i \in {j \in 1..Len(ast) : Matches(ast[j].selector, name)}}

----------------------------------------------------------------------------
(* The pipeline run: the state a write or end of the transform stream works *)
(* on. r.err is "none" until a step fails.                                  *)

Max(a, b) == IF a > b THEN a ELSE b

RECURSIVE SumCurrent(_)
SumCurrent(ls) == IF ls = <<>> THEN 0 ELSE Head(ls).current + SumCurrent(Tail(ls))

NoFailure == [need |-> 0, buffer |-> 0, stack |-> 0]

RunState ==
    [buffer |-> stream.buffer, stack |-> stream.stack, active |-> stream.active,
     in_text |-> stream.in_text, tags |-> stream.tags,
     limiters |-> limiters, peak |-> SumCurrent(limiters),
     out |-> output, log |-> handlers_executed, clog |-> content_log,
     call |-> hist.calls + 1, err |-> "none", err_value |-> <<>>,
     failure |-> NoFailure]

\* the limiters as they are when just created
RECURSIVE FreshLimiters(_)
FreshLimiters(ls) ==
    IF ls = <<>> THEN <<>>
    ELSE <<[Head(ls) EXCEPT !.current = 0]>> \o FreshLimiters(Tail(ls))

\* the state of a run on a rewriter just constructed with the same settings
FreshRunState ==
    [buffer |-> <<>>, stack |-> <<>>, active |-> <<>>, in_text |-> FALSE, tags |-> 0,
     limiters |-> FreshLimiters(limiters),
     peak |-> 0, out |-> <<>>, log |-> <<>>, clog |-> <<>>,
     call |-> 0, err |-> "none", err_value |-> <<>>, failure |-> NoFailure]

\* MemoryLimiter::increase_usage, on the limiter the component holds
increase_usage(r, ref, n) ==
    IF r.limiters[ref].current + n > r.limiters[ref].max
    THEN [r EXCEPT !.err = "MemoryLimitExceeded",
                   !.failure = [need |-> n, buffer |-> Len(r.buffer),
                                stack |-> Len(r.stack)]]
    ELSE [r EXCEPT !.limiters[ref].current = @ + n,
                   !.peak = Max(@, SumCurrent(r.limiters) + n)]

\* MemoryLimiter::decrease_usage
decrease_usage(r, ref, n) == [r EXCEPT !.limiters[ref].current = @ - n]

\* one content handler runs; the log keeps what it was given and what it
\* returned; the error it returns fails the run and is carried in the error
Invoke(r, kind, id, failed, payload) ==
    [r EXCEPT !.clog = Append(@, [kind |-> kind, id |-> id, call |-> r.call,
                                  data |-> payload,
                                  res |-> IF failed THEN <<kind, id>> ELSE <<>>]),
              !.err = IF failed THEN "ContentHandlerError" ELSE @,
              !.err_value = IF failed THEN <<kind, id>> ELSE @]

\* the document-level handlers of one list run in the order of the list
RECURSIVE RunDocHandlers(_, _, _, _, _)
RunDocHandlers(r, list, kind, payload, i) ==
    IF r.err # "none" \/ i > Len(list) THEN r
    ELSE RunDocHandlers(Invoke(r, kind, list[i].id, list[i].act = "err", payload),
                        list, kind, payload, i + 1)

\* the locators of the selectors that matched an open element
ActiveLocators(r) == UNION {r.active[i] : i \in 1..Len(r.active)}

\* the text or comment handlers registered with a selector run for content
\* inside a matched element, in the order of the dispatcher's table
RECURSIVE RunScopedHandlers(_, _, _, _)
RunScopedHandlers(r, kind, payload, i) ==
    IF r.err # "none" \/ i > Len(dispatcher.element_handlers) THEN r
    ELSE LET h == dispatcher.element_handlers[i] IN
         IF h.kind # kind \/ i \notin ActiveLocators(r)
         THEN RunScopedHandlers(r, kind, payload, i + 1)
         ELSE RunScopedHandlers(Invoke(r, IF kind = "text" THEN "el_text" ELSE "el_comments",
                                       h.id, ~h.ok, payload),
                                kind, payload, i + 1)

\* the text handlers are invoked for a text chunk; one that fails fails the run
DocTextHandler(r, payload) ==
    LET r1 == RunScopedHandlers(r, "text", payload, 1) IN
    RunDocHandlers(r1, dispatcher.doc_text, "doc_text", payload, 1)

\* the first n bytes of the buffer leave the buffer and bytes go to the sink
FlushAs(r, n, bytes) ==
    decrease_usage([r EXCEPT !.out = Append(@, bytes), !.buffer = Drop(@, n)],
                   stream_limiter, n)

\* the first n bytes of the buffer go to the sink and leave the buffer
Flush(r, n) == FlushAs(r, n, Take(r.buffer, n))

\* a text chunk of n bytes
HandleText(r, n) ==
    LET r1 == DocTextHandler(r, Take(r.buffer, n)) IN
    IF r1.err # "none" THEN r1 ELSE [Flush(r1, n) EXCEPT !.in_text = TRUE]

\* the content the document text handlers insert after a text node
RECURSIVE InsertedAfter(_, _)
InsertedAfter(r, i) ==
    IF i > Len(dispatcher.doc_text) THEN r
    ELSE InsertedAfter(IF dispatcher.doc_text[i].act = "mut"
                       THEN [r EXCEPT !.out = Append(@, Inserted)] ELSE r,
                       i + 1)

\* the end of a text node: the handlers see its last (empty) chunk, and what
\* they insert after it is emitted
CloseText(r) ==
    IF ~r.in_text THEN r
    ELSE LET r1 == [DocTextHandler(r, <<>>) EXCEPT !.in_text = FALSE] IN
         IF r1.err # "none" THEN r1 ELSE InsertedAfter(r1, 1)

\* the dispatcher runs the element handlers of the matched locators, in the
\* order of its table, from entry i on; a handler that fails stops the run
RECURSIVE RunElementHandlers(_, _, _)
RunElementHandlers(r, matched, i) ==
    IF r.err # "none" \/ i > Len(dispatcher.element_handlers) THEN r
    ELSE IF i \notin matched \/ dispatcher.element_handlers[i].kind # "element"
    THEN RunElementHandlers(r, matched, i + 1)
    ELSE LET h == dispatcher.element_handlers[i]
             r1 == [r EXCEPT !.log = Append(@, <<r.tags, h.id>>)]
         IN RunElementHandlers(Invoke(r1, "element", h.id, ~h.ok, <<>>),
                               matched, i + 1)

\* a start tag: the element is pushed on the open-element stack (through the
\* limiter), the selectors are matched and the handlers run
HandleStartTag(r, lx) ==
    LET r1 == CloseText(r) IN
    IF r1.err # "none" THEN r1 ELSE
    LET r2 == increase_usage(r1, vm_limiter, 1) IN
    IF r2.err # "none" THEN r2 ELSE
    LET matched == MatchedLocators(selectors_ast, lx.name)
        r3 == [r2 EXCEPT !.stack = Append(@, lx.name),
                         !.active = Append(@, matched), !.tags = @ + 1]
        r4 == RunElementHandlers(r3, matched, 1)
    IN IF r4.err # "none" THEN r4
       ELSE IF \E i \in matched : /\ dispatcher.element_handlers[i].kind = "element"
                                  /\ dispatcher.element_handlers[i].mut
       THEN [FlushAs(r4, lx.len, WithAttribute(Take(r4.buffer, lx.len)))
                EXCEPT !.out = Append(@, Prepended)]
       ELSE Flush(r4, lx.len)

\* the index of the innermost open element of that name, 0 when none is open
LastOpen(stack, name) ==
    IF \E i \in 1..Len(stack) : stack[i] = name
    THEN CHOOSE i \in 1..Len(stack) :
            stack[i] = name /\ \A j \in (i + 1)..Len(stack) : stack[j] # name
    ELSE 0

\* an end tag: the matching element and the elements opened inside it are popped
HandleEndTag(r, lx) ==
    LET r1 == CloseText(r) IN
    IF r1.err # "none" THEN r1 ELSE
    LET k == LastOpen(r1.stack, lx.name)
        r2 == IF k = 0 THEN r1
              ELSE decrease_usage([r1 EXCEPT !.stack = Take(@, k - 1),
                                             !.active = Take(@, k - 1)],
                                  vm_limiter, Len(r1.stack) - k + 1)
    IN Flush(r2, lx.len)

\* a comment: the comment handlers of the matched open elements and of the
\* document run; a comment whose text a handler set is serialized anew
HandleComment(r, lx) ==
    LET r1 == CloseText(r) IN
    IF r1.err # "none" THEN r1 ELSE
    LET r2 == RunScopedHandlers(r1, "comments", lx.name, 1)
        r3 == RunDocHandlers(r2, dispatcher.doc_comments, "doc_comments", lx.name, 1)
    IN IF r3.err # "none" THEN r3
       ELSE IF \E i \in 1..Len(dispatcher.doc_comments) :
                   dispatcher.doc_comments[i].act = "mut"
       THEN FlushAs(r3, lx.len, <<"<", "!">> \o lx.name \o CommentSuffix \o <<">">>)
       ELSE Flush(r3, lx.len)

\* a doctype: the doctype handlers run on its data
HandleDoctype(r, lx) ==
    LET r1 == CloseText(r) IN
    IF r1.err # "none" THEN r1 ELSE
    LET r2 == RunDocHandlers(r1, dispatcher.doctype, "doctype", lx.name, 1) IN
    IF r2.err # "none" THEN r2 ELSE Flush(r2, lx.len)

\* any other complete construct passes through
HandleOther(r, lx) ==
    LET r1 == CloseText(r) IN
    IF r1.err # "none" THEN r1 ELSE Flush(r1, lx.len)

\* the tokenizer is driven until it blocks or a step fails
RECURSIVE Drive(_)
Drive(r) ==
    IF r.err # "none" THEN r ELSE
    LET lx == NextLexeme(r.buffer) IN
    CASE lx.kind = "Text"     -> Drive(HandleText(r, lx.len))
      [] lx.kind = "StartTag" -> Drive(HandleStartTag(r, lx))
      [] lx.kind = "EndTag"   -> Drive(HandleEndTag(r, lx))
      [] lx.kind = "Comment"  -> Drive(HandleComment(r, lx))
      [] lx.kind = "Doctype"  -> Drive(HandleDoctype(r, lx))
      [] lx.kind = "Other"    -> Drive(HandleOther(r, lx))
      [] OTHER                -> r

\* TransformStream::write on the run state r
WriteOn(r, data) ==
    LET r1 == increase_usage(r, stream_limiter, Len(data)) IN
    IF r1.err # "none" THEN r1
    ELSE Drive([r1 EXCEPT !.buffer = @ \o data])

\* TransformStream::end on the run state r
EndOn(r) ==
    LET lx == EofLexeme(r.buffer)
        r1 == IF r.buffer = <<>> THEN r
              ELSE IF lx.kind = "Doctype" THEN HandleDoctype(r, lx)
              ELSE IF lx.kind = "Comment" THEN HandleComment(r, lx)
              ELSE HandleText(r, lx.len)
    IN IF r1.err # "none" THEN r1 ELSE
       LET r2 == CloseText(r1) IN
       IF r2.err # "none" THEN r2
       ELSE decrease_usage([r2 EXCEPT !.stack = <<>>, !.active = <<>>],
                           vm_limiter, Len(r2.stack))

\* TransformStream::write: the bytes are appended to the buffer through the
\* limiter, then the tokenizer is driven
StreamWrite(data) == WriteOn(RunState, data)

\* TransformStream::end: at the end of the input an incomplete construct
\* becomes text, the open text node is closed and so are the open elements
StreamEnd == EndOn(RunState)

----------------------------------------------------------------------------
(* Settings *)

\* an element handler closure: its identity is its position in
\* Settings.element_content_handlers, ok is whether it returns Ok
WithIds(sels, oks) ==
    [i \in 1..Len(sels) |->
        [selector |-> sels[i],
         handlers |-> [id |-> i, ok |-> oks[i], kind |-> "element", mut |-> FALSE]]]

\* element handlers that set an attribute and prepend Html, as the handler
\* of tests::rewrite_start_tags
WithMutation(sels) ==
    [i \in 1..Len(sels) |->
        [selector |-> sels[i],
         handlers |-> [id |-> i, ok |-> TRUE, kind |-> "element", mut |-> TRUE]]]

\* the same with handlers for the comments or the text inside the element
WithKinds(sels, oks, kinds) ==
    [i \in 1..Len(sels) |->
        [selector |-> sels[i],
         handlers |-> [id |-> i, ok |-> oks[i], kind |-> kinds[i], mut |-> FALSE]]]

\* a document content handler: kind is what it handles ("doctype",
\* "comments", "text"), act is what it does: "ok" looks only, "mut" changes
\* the content, "err" returns an error
DocHandler(kind, act) == [kind |-> kind, act |-> act]

NoSettings ==
    [encoding |-> "none", element_content_handlers |-> <<>>,
     document_content_handlers |-> <<>>,
     memory_settings |-> [max_allowed_memory_usage |-> 0]]

MakeSettings(label, ech, dch, mem) ==
    [encoding |-> label, element_content_handlers |-> ech,
     document_content_handlers |-> dch,
     memory_settings |-> [max_allowed_memory_usage |-> mem]]

----------------------------------------------------------------------------
(* HtmlRewriter::try_new *)

\* the loop over settings.element_content_handlers: each pair's handlers are
\* added to the dispatcher, which returns their locator, and the selector is
\* added to the AST with that locator
RECURSIVE AddSelectors(_, _, _)
AddSelectors(ech, handlers, ast) ==
    IF ech = <<>> THEN [element_handlers |-> handlers, ast |-> ast]
    ELSE LET locator == Len(handlers) + 1 IN
         AddSelectors(Tail(ech),
                      Append(handlers, Head(ech).handlers),
                      Append(ast, [selector |-> Head(ech).selector,
                                   locator |-> locator]))

\* a mutant: no pair is registered
RegisterElementHandlersNone(ech) == [element_handlers |-> <<>>, ast |-> <<>>]

\* a mutant: the pairs are registered last to first
RegisterElementHandlersReversed(ech) == AddSelectors(Reverse(ech), <<>>, <<>>)

RegisterElementHandlers(ech) == AddSelectors(ech, <<>>, <<>>)

\* a mutant: the limiter is created with no effective ceiling
NewLimiterUnlimited(settings) ==
    [created |-> TRUE, max |-> 1000, current |-> 0]

\* MemoryLimiter::new_shared(settings.memory_settings.max_allowed_memory_usage)
NewLimiter(settings) ==
    [created |-> TRUE, max |-> settings.memory_settings.max_allowed_memory_usage,
     current |-> 0]

NoLimiter == [created |-> FALSE, max |-> 0, current |-> 0]

\* the limiter the pipeline works under
limiter == IF limiters = <<>> THEN NoLimiter ELSE limiters[stream_limiter]

\* a mutant: the selector matching VM and the stream get a limiter each
SeparateLimiters(settings) ==
    [limiters |-> <<NewLimiter(settings), NewLimiter(settings)>>,
     vm |-> 2, stream |-> 1]

\* one limiter is created and the selector matching VM and the transform
\* stream each get a clone of the reference to it
SharedLimiter(settings) ==
    [limiters |-> <<NewLimiter(settings)>>, vm |-> 1, stream |-> 1]

NoRefs == [vm |-> 0, stream |-> 0]

NoDocumentHandlers == [doc_text |-> <<>>, doc_comments |-> <<>>, doctype |-> <<>>]

\* the loop over settings.document_content_handlers: each handler is added to
\* the dispatcher's list for its kind; its identity is its position in the
\* settings
RECURSIVE AddDocumentHandlers(_, _, _)
AddDocumentHandlers(dch, i, d) ==
    IF i > Len(dch) THEN d
    ELSE LET h == [id |-> i, act |-> dch[i].act] IN
         AddDocumentHandlers(dch, i + 1,
            CASE dch[i].kind = "text"     -> [d EXCEPT !.doc_text = Append(@, h)]
              [] dch[i].kind = "comments" -> [d EXCEPT !.doc_comments = Append(@, h)]
              [] OTHER                    -> [d EXCEPT !.doctype = Append(@, h)])

\* a mutant: the document content handlers are not registered
RegisterDocumentHandlersNone(dch) == NoDocumentHandlers

RegisterDocumentHandlers(dch) == AddDocumentHandlers(dch, 1, NoDocumentHandlers)

NoDispatcher ==
    [element_handlers |-> <<>>, doc_text |-> <<>>, doc_comments |-> <<>>,
     doctype |-> <<>>]

NoStream ==
    [buffer |-> <<>>, stack |-> <<>>, active |-> <<>>, in_text |-> FALSE,
     tags |-> 0]

NoCall ==
    [op |-> "none", res |-> "none", err |-> "none", msg |-> "none",
     label |-> "none", selectors |-> 0, data |-> <<>>, reached |-> FALSE,
     was_finished |-> FALSE, was_poisoned |-> FALSE, was_state |-> "none",
     buffered |-> 0, peak |-> 0, err_value |-> <<>>, failure |-> NoFailure]

\* the pipeline is built: dispatcher, selectors, limiter, stream
Construct(settings, enc) ==
    LET reg == RegisterElementHandlers(settings.element_content_handlers)
        doc == RegisterDocumentHandlers(settings.document_content_handlers)
        lim == SharedLimiter(settings)
    IN
    /\ dispatcher' = [element_handlers |-> reg.element_handlers,
                      doc_text |-> doc.doc_text,
                      doc_comments |-> doc.doc_comments,
                      doctype |-> doc.doctype]
    /\ selectors_ast' = reg.ast
    /\ limiters' = lim.limiters
    /\ refs' = [vm |-> lim.vm, stream |-> lim.stream]
    /\ stream' = NoStream
    /\ encoding' = enc

\* a mutant: the pipeline is built before the encoding label is looked at
TryNewBuildFirst(settings) ==
    LET e == try_encoding_from_str(settings.encoding) IN
    /\ rewriter = "none"
    /\ UNCHANGED harness_vars
    /\ Construct(settings, e.enc)
    /\ rewriter' = IF e.ok THEN "live" ELSE "none"
    /\ last' = [NoCall EXCEPT !.op = "try_new", !.label = settings.encoding,
                              !.selectors = Len(settings.element_content_handlers),
                              !.res = IF e.ok THEN "Ok" ELSE "Err", !.err = e.err]
    /\ hist' = [hist EXCEPT !.settings = IF e.ok THEN settings ELSE @]
    /\ UNCHANGED <<finished, poisoned, output, handlers_executed, content_log>>

TryNew(settings) ==
    LET e == try_encoding_from_str(settings.encoding) IN
    /\ rewriter = "none"
    /\ UNCHANGED harness_vars
    /\ IF ~e.ok
       THEN /\ last' = [NoCall EXCEPT !.op = "try_new", !.res = "Err",
                                      !.err = e.err, !.label = settings.encoding,
                                      !.selectors =
                                          Len(settings.element_content_handlers)]
            /\ UNCHANGED <<rewriter, finished, poisoned, encoding, limiters,
                           refs, dispatcher, selectors_ast, stream, output,
                           handlers_executed, content_log, hist>>
       ELSE /\ Construct(settings, e.enc)
            /\ rewriter' = "live"
            /\ finished' = FALSE
            /\ poisoned' = FALSE
            /\ last' = [NoCall EXCEPT !.op = "try_new", !.res = "Ok",
                                      !.label = settings.encoding,
                                      !.selectors =
                                          Len(settings.element_content_handlers)]
            /\ hist' = [hist EXCEPT !.settings = settings]
            /\ UNCHANGED <<output, handlers_executed, content_log>>

----------------------------------------------------------------------------
(* HtmlRewriter::write and HtmlRewriter::end *)

MsgWriteAfterEnd == "Data was written into the stream after it has ended."

MsgEndedTwice == "Stream was ended twice."

MsgPoisoned == "Attempt to use the HtmlRewriter after a fatal error."

\* the explicit lifecycle {Active, Finished, Poisoned}: the state a call that
\* went through leaves the instance in (a call that aborts leaves it alone)
StateAfter(op, err) ==
    IF err # "none" THEN "Poisoned"
    ELSE IF op = "end" THEN "Finished"
    ELSE "Active"

\* a failed assert!: the call aborts with the message; nothing but the record
\* of the call (and what the call changed before the assert) changes
Panics(op, data, msg) ==
    /\ last' = [NoCall EXCEPT !.op = op, !.data = data, !.res = "Panic",
                              !.msg = msg, !.was_finished = finished,
                              !.was_poisoned = poisoned,
                              !.was_state = hist.state,
                              !.buffered = Len(stream.buffer)]
    /\ hist' = [hist EXCEPT !.calls = @ + 1,
                            !.end_called = @ \/ op = "end",
                            !.offsets = Append(@, Len(hist.input)),
                            !.err_before = hist.err_returned,
                            !.end_before = hist.end_returned]
    /\ UNCHANGED <<rewriter, encoding, limiters, refs, dispatcher, selectors_ast,
                   stream, output, handlers_executed, content_log>>
    /\ UNCHANGED harness_vars

\* the call reaches the transform stream; r is the run it made
Returns(op, data, r) ==
    /\ stream' = [buffer |-> r.buffer, stack |-> r.stack, active |-> r.active,
                  in_text |-> r.in_text, tags |-> r.tags]
    /\ limiters' = r.limiters
    /\ output' = r.out
    /\ handlers_executed' = r.log
    /\ content_log' = r.clog
    /\ last' = [NoCall EXCEPT !.op = op, !.data = data,
                              !.res = IF r.err = "none" THEN "Ok" ELSE "Err",
                              !.err = r.err, !.reached = TRUE,
                              !.was_finished = finished,
                              !.was_poisoned = poisoned,
                              !.was_state = hist.state,
                              !.buffered = Len(stream.buffer),
                              !.peak = r.peak, !.err_value = r.err_value,
                              !.failure = r.failure]
    /\ hist' = [hist EXCEPT !.calls = @ + 1,
                            !.end_called = @ \/ op = "end",
                            !.state = StateAfter(op, r.err),
                            !.stream_calls = Append(@, op),
                            !.input = @ \o data,
                            !.end_at = IF op = "end" THEN hist.calls + 1 ELSE @,
                            !.offsets = Append(@, Len(hist.input) + Len(data)),
                            !.first_err = IF ~hist.err_returned /\ r.err # "none"
                                          THEN [call |-> hist.calls + 1, err |-> r.err,
                                                value |-> r.err_value]
                                          ELSE @,
                            !.err_before = hist.err_returned,
                            !.end_before = hist.end_returned,
                            !.err_returned = @ \/ r.err # "none",
                            !.end_returned = @ \/ op = "end",
                            !.sunk_at_err = IF ~hist.err_returned /\ r.err # "none"
                                            THEN Len(r.out) ELSE @]
    /\ UNCHANGED <<rewriter, encoding, refs, dispatcher, selectors_ast>>
    /\ UNCHANGED harness_vars

\* a mutant: an error of the stream does not poison the rewriter
guarded_no_poison(op, data, r) ==
    IF poisoned
    THEN Panics(op, data, MsgPoisoned) /\ poisoned' = poisoned
    ELSE Returns(op, data, r) /\ poisoned' = poisoned

\* a mutant: the rewriter is poisoned whatever the stream returns
guarded_always_poison(op, data, r) ==
    IF poisoned
    THEN Panics(op, data, MsgPoisoned) /\ poisoned' = poisoned
    ELSE Returns(op, data, r) /\ poisoned' = TRUE

\* a mutant: the poisoned flag is not looked at
guarded_no_assert(op, data, r) ==
    Returns(op, data, r) /\ poisoned' = (poisoned \/ r.err # "none")

\* the guarded! macro: assert!(!self.poisoned), then the stream call, whose
\* error poisons the rewriter
guarded(op, data, r) ==
    IF poisoned
    THEN Panics(op, data, MsgPoisoned) /\ poisoned' = poisoned
    ELSE Returns(op, data, r) /\ poisoned' = (r.err # "none")

\* a mutant: write does not look at the finished flag
write_no_finished_assert(data) ==
    /\ rewriter = "live"
    /\ hist.calls < MaxCalls
    /\ finished' = finished
    /\ guarded("write", data, StreamWrite(data))

write(data) ==
    /\ rewriter = "live"
    /\ hist.calls < MaxCalls
    /\ IF finished
       THEN Panics("write", data, MsgWriteAfterEnd) /\ UNCHANGED <<finished, poisoned>>
       ELSE finished' = finished /\ guarded("write", data, StreamWrite(data))

\* a mutant: end sets the finished flag only after the guarded stream call
end_finish_late ==
    /\ rewriter = "live"
    /\ hist.calls < MaxCalls
    /\ IF finished
       THEN Panics("end", <<>>, MsgEndedTwice) /\ UNCHANGED <<finished, poisoned>>
       ELSE finished' = ~poisoned /\ guarded("end", <<>>, StreamEnd)

\* a mutant: end marks the rewriter finished without ending the stream
end_skips_stream ==
    /\ rewriter = "live"
    /\ hist.calls < MaxCalls
    /\ IF finished
       THEN Panics("end", <<>>, MsgEndedTwice) /\ UNCHANGED <<finished, poisoned>>
       ELSE finished' = TRUE /\ guarded("end", <<>>, RunState)

\* a mutant: end does not look at the finished flag
end_no_finished_assert ==
    /\ rewriter = "live"
    /\ hist.calls < MaxCalls
    /\ finished' = TRUE
    /\ guarded("end", <<>>, StreamEnd)

end ==
    /\ rewriter = "live"
    /\ hist.calls < MaxCalls
    /\ IF finished
       THEN Panics("end", <<>>, MsgEndedTwice) /\ UNCHANGED <<finished, poisoned>>
       ELSE finished' = TRUE /\ guarded("end", <<>>, StreamEnd)

----------------------------------------------------------------------------
(* Specification *)

NoHist ==
    [calls |-> 0, stream_calls |-> <<>>, err_returned |-> FALSE,
     end_returned |-> FALSE, err_before |-> FALSE, end_before |-> FALSE,
     sunk_at_err |-> 0, end_called |-> FALSE, state |-> "Active",
     input |-> <<>>, offsets |-> <<>>, end_at |-> 0,
     first_err |-> [call |-> 0, err |-> "none", value |-> <<>>],
     settings |-> NoSettings]

\* no ChunkedInput has been made yet
NoChunkedInput ==
    [made |-> FALSE, input |-> <<>>, chunks |-> <<>>, initialized |-> FALSE,
     encoding |-> "none"]

NoHarnessCall ==
    [op |-> "none", res |-> "none", msg |-> "none", chunk_size |-> 0,
     env |-> [set |-> FALSE, val |-> 0], encoding |-> "none",
     input_before |-> <<>>,
     chunks_before |-> <<>>, inits_before |-> 0, inits |-> 0, calls |-> 0]

Init ==
    /\ chunked_input = NoChunkedInput
    /\ harness_last = NoHarnessCall
    /\ rewriter = "none"
    /\ finished = FALSE
    /\ poisoned = FALSE
    /\ encoding = "none"
    /\ limiters = <<>>
    /\ refs = NoRefs
    /\ dispatcher = NoDispatcher
    /\ selectors_ast = <<>>
    /\ stream = NoStream
    /\ output = <<>>
    /\ handlers_executed = <<>>
    /\ content_log = <<>>
    /\ last = NoCall
    /\ hist = NoHist

\* the chunks written
Chunks ==
    {<<>>, <<"a">>, <<"<", "a">>, <<">">>, <<"<", "a", ">">>, <<"<", "b", ">", "b">>,
     <<"<", "/", "a", ">">>, <<"<">>, <<"/", "b", ">", "<", "a">>}

\* the ceilings given as max_allowed_memory_usage
MemoryCeilings == {2, 4, 6}

\* the settings of the rewriters constructed
SettingsSet ==
    {MakeSettings(l, WithIds(sels, oks), dch, m) :
        l \in Labels,
        sels \in {<<>>, <<"*">>},
        oks \in {<<TRUE>>, <<FALSE>>},
        dch \in {<<>>, <<DocHandler("text", "err")>>},
        m \in MemoryCeilings}

Next ==
    \/ \E settings \in SettingsSet : TryNew(settings)
    \/ \E data \in Chunks : write(data)
    \/ end

Spec == Init /\ [][Next]_vars

\* the lists of selectors registered when the order of the handlers is checked
RECURSIVE SeqsUpTo(_, _)
SeqsUpTo(S, n) ==
    IF n = 0 THEN {<<>>}
    ELSE SeqsUpTo(S, n - 1) \cup
         {Append(q, x) : q \in {p \in SeqsUpTo(S, n - 1) : Len(p) = n - 1}, x \in S}

\* the longest list of (selector, handlers) pairs registered
MaxSelectors == 3

OrderSettingsSet ==
    {MakeSettings("utf-8", WithIds(sels, [i \in 1..Len(sels) |-> TRUE]), <<>>, 6) :
        sels \in SeqsUpTo(Selectors, MaxSelectors)}

\* the chunks written when the order of the handlers is checked
OrderChunks ==
    {<<"<", "a", ">">>, <<"<", "b", ">", "b">>, <<"<", "a">>, <<">">>,
     <<"<", "/", "a", ">">>}

NextOrder ==
    \/ \E settings \in OrderSettingsSet : TryNew(settings)
    \/ \E data \in OrderChunks : write(data)
    \/ end

SpecOrder == Init /\ [][NextOrder]_vars

\* a ceiling no input of the content runs comes near
AmpleMemory == 40

\* the settings of the rewriters constructed when the content handlers and
\* the output are checked: no handlers at all (under a tight and under an
\* ample ceiling), one failing handler of each of the six kinds, and the
\* document handlers of tests::rewrite_document_content and tests::doctype_info
ContentSettingsSet ==
    {MakeSettings("utf-8", <<>>, <<>>, m) : m \in {4, AmpleMemory}}
    \cup {MakeSettings("utf-8", WithKinds(<<"a">>, <<FALSE>>, <<k>>), <<>>, AmpleMemory) :
            k \in {"element", "comments", "text"}}
    \cup {MakeSettings("utf-8", <<>>, <<DocHandler(k, "err")>>, AmpleMemory) :
            k \in {"doctype", "comments", "text"}}
    \cup {MakeSettings("utf-8", <<>>,
                       <<DocHandler("comments", "mut"), DocHandler("text", "mut")>>,
                       AmpleMemory),
          MakeSettings("utf-8", <<>>, <<DocHandler("doctype", "ok")>>, AmpleMemory),
          MakeSettings("utf-8", WithKinds(<<"a">>, <<TRUE>>, <<"text">>),
                       <<DocHandler("text", "mut"), DocHandler("comments", "ok")>>, 4)}

\* the chunks written then: text, tags, comments and doctypes, whole and
\* split inside the construct
ContentChunks ==
    {<<"a">>, <<"<", "a", ">">>, <<"<", "/", "a", ">", "b">>, <<"<", "!">>,
     <<"b", ">">>, <<"<", "!", "a", ">">>, <<"<", "!", "D", "a">>,
     <<"<", "!", "D">>, <<"<">>, <<"!", "D", ">">>}

NextContent ==
    \/ \E settings \in ContentSettingsSet : TryNew(settings)
    \/ \E data \in ContentChunks : write(data)
    \/ end

SpecContent == Init /\ [][NextContent]_vars

\* the settings of tests::rewrite_start_tags: one element handler on the
\* universal selector that sets an attribute and prepends Html; beside it,
\* the same handler on a type selector
StartTagSettingsSet ==
    {MakeSettings("utf-8", WithMutation(<<sel>>), <<>>, AmpleMemory) :
        sel \in {"*", "a"}}

\* the chunks written then: a doctype, a comment, text, start and end tags,
\* whole and split inside the tag
StartTagChunks ==
    {<<"<", "!", "D", "a", ">">>, <<"<", "a", ">">>, <<"<", "b">>, <<">", "a">>,
     <<"<", "/", "a", ">">>, <<"<", "!", "a", ">", "b">>, <<"<", "b", "/", ">">>}

NextStartTags ==
    \/ \E settings \in StartTagSettingsSet : TryNew(settings)
    \/ \E data \in StartTagChunks : write(data)
    \/ end

SpecStartTags == Init /\ [][NextStartTags]_vars

----------------------------------------------------------------------------
(* Properties *)

ApiCall == last.op \in {"write", "end"}

\* C1: once a write or end call has returned a RewritingError, every later
\* write or end call panics: it returns neither Ok nor Err.
C1_PanicAfterError ==
    (ApiCall /\ hist.err_before) => last.res = "Panic"

\* a call made after an earlier call returned an error has panicked
C1_Witness ==
    /\ ApiCall
    /\ hist.err_before
    /\ last.res = "Panic"

\* C2: after an end call has returned (Ok or a RewritingError), a later write
\* panics with "Data was written into the stream after it has ended." and the
\* data does not reach the transform stream.
C2_WriteAfterEnd ==
    (last.op = "write" /\ hist.end_before) =>
        /\ last.res = "Panic"
        /\ last.msg = MsgWriteAfterEnd
        /\ ~last.reached

\* a write made after an end call that returned a RewritingError
C2_Witness ==
    /\ last.op = "write"
    /\ hist.end_before
    /\ hist.err_before
    /\ last.msg = MsgWriteAfterEnd
    /\ last.data # <<>>

\* C3: a second end call, after an end call that returned, panics with
\* "Stream was ended twice." and the stream's end is not invoked again.
C3_EndTwice ==
    /\ (last.op = "end" /\ hist.end_before) =>
          /\ last.res = "Panic"
          /\ last.msg = MsgEndedTwice
          /\ ~last.reached
    /\ Cardinality({i \in 1..Len(hist.stream_calls) : hist.stream_calls[i] = "end"}) <= 1

\* an end call made after an end call that returned Ok
C3_Witness ==
    /\ last.op = "end"
    /\ hist.end_before
    /\ ~hist.err_before
    /\ last.msg = MsgEndedTwice

\* C4 as stated: any use after a write or end returned a RewritingError panics
\* with "Attempt to use the HtmlRewriter after a fatal error.".
C4_AlwaysPoisonedMessage ==
    (ApiCall /\ hist.err_before) =>
        /\ last.res = "Panic"
        /\ last.msg = MsgPoisoned

\* C4 as amended: any use after a write or end returned a RewritingError
\* panics; the message is "Attempt to use the HtmlRewriter after a fatal
\* error." when end had not been called before that use, and otherwise the
\* message of the finished check: "Data was written into the stream after it
\* has ended." for a write, "Stream was ended twice." for an end.
C4_MessageAfterError ==
    (ApiCall /\ hist.err_before) =>
        /\ last.res = "Panic"
        /\ last.msg = IF ~last.was_finished THEN MsgPoisoned
                      ELSE IF last.op = "write" THEN MsgWriteAfterEnd
                      ELSE MsgEndedTwice

\* the error came from a write, an end call then panicked as poisoned, and a
\* later write panics with the message of the finished check
C4_Witness ==
    /\ last.op = "write"
    /\ hist.err_before
    /\ ~hist.end_before
    /\ last.was_finished
    /\ last.msg = MsgWriteAfterEnd

\* C5: after a write or end call returned a RewritingError the output sink is
\* not invoked again: the number of slices it has received stays what it was
\* when the error was returned.
C5_NoOutputAfterError ==
    hist.err_returned => Len(output) = hist.sunk_at_err

\* the sink had received output, a call failed and a later call was made
C5_Witness ==
    /\ ApiCall
    /\ hist.err_before
    /\ hist.sunk_at_err > 0
    /\ last.data # <<>>

\* C6 as stated: try_new returns Ok exactly when the label resolves to an
\* ASCII-compatible encoding; a label of no known encoding yields
\* UnknownEncoding and a label of a non-ASCII-compatible encoding yields
\* NonAsciiCompatibleEncoding.
C6_EncodingResult ==
    last.op = "try_new" =>
        LET enc == for_label(last.label) IN
        /\ last.res = "Ok" <=> (enc # "none" /\ is_ascii_compatible(enc))
        /\ enc = "none" => (last.res = "Err" /\ last.err = "UnknownEncoding")
        /\ (enc # "none" /\ ~is_ascii_compatible(enc)) =>
              (last.res = "Err" /\ last.err = "NonAsciiCompatibleEncoding")

\* C7 as stated: a label of UTF-16LE, UTF-16BE, ISO-2022-JP or replacement is
\* rejected with NonAsciiCompatibleEncoding, not UnknownEncoding.
C7_NonAsciiCompatibleRejected ==
    (last.op = "try_new" /\
     for_label(last.label) \in {"UTF-16LE", "UTF-16BE", "ISO-2022-JP", "replacement"}) =>
        /\ last.res = "Err"
        /\ last.err = "NonAsciiCompatibleEncoding"

\* C8: when try_new fails with an EncodingError nothing has been created: no
\* handler is registered, no limiter exists, no handler ran and the sink was
\* not called.
C8_NothingCreatedOnError ==
    (last.op = "try_new" /\ last.res = "Err") =>
        /\ rewriter = "none"
        /\ dispatcher = NoDispatcher
        /\ selectors_ast = <<>>
        /\ limiter = NoLimiter
        /\ stream = NoStream
        /\ handlers_executed = <<>>
        /\ output = <<>>

\* try_new failed on settings that carry element content handlers
C8_Witness ==
    /\ last.op = "try_new"
    /\ last.res = "Err"
    /\ last.selectors > 0

\* C9: the element handlers run in document order across elements and, for
\* one element, in the order of their pairs in element_content_handlers.
C9_HandlerOrder ==
    \A i, j \in 1..Len(handlers_executed) :
        i < j =>
            \/ handlers_executed[i][1] < handlers_executed[j][1]
            \/ /\ handlers_executed[i][1] = handlers_executed[j][1]
               /\ handlers_executed[i][2] < handlers_executed[j][2]

\* the first and the third selector matched one element, the second did not,
\* and the second matched another element
C9_Witness ==
    /\ \E i \in 1..Len(handlers_executed) :
          /\ i + 1 <= Len(handlers_executed)
          /\ handlers_executed[i][1] = handlers_executed[i + 1][1]
          /\ handlers_executed[i][2] = 1
          /\ handlers_executed[i + 1][2] = 3
    /\ \E j \in 1..Len(handlers_executed) : handlers_executed[j][2] = 2

Ceiling == hist.settings.memory_settings.max_allowed_memory_usage

\* C10: tracked memory never exceeds max_allowed_memory_usage, at rest or
\* during a call, and a write whose bytes added to the buffered input exceed
\* the ceiling returns MemoryLimitExceeded.
C10_MemoryBound ==
    /\ limiter.current <= Ceiling
    /\ last.peak <= Ceiling
    /\ (last.op = "write" /\ last.reached /\ last.buffered + Len(last.data) > Ceiling) =>
          (last.res = "Err" /\ last.err = "MemoryLimitExceeded")

\* a write returned Ok and left input buffered, and the next write, within
\* the ceiling on its own, exceeded it
C10_Witness ==
    /\ last.op = "write"
    /\ last.err = "MemoryLimitExceeded"
    /\ last.buffered > 0
    /\ Len(last.data) <= Ceiling

\* the state of the explicit lifecycle that the two flags stand for
FlagState ==
    IF poisoned THEN "Poisoned" ELSE IF finished THEN "Finished" ELSE "Active"

\* C16: the two flags behave as the machine {Active, Finished, Poisoned}: the
\* flags stand for the state the machine is in, a call reaches the transform
\* stream exactly when the instance is Active (both flags false), and every
\* call made in Finished or Poisoned aborts.
C16_ThreeStateMachine ==
    /\ rewriter = "live" => FlagState = hist.state
    /\ ApiCall =>
          /\ last.reached <=> (~last.was_finished /\ ~last.was_poisoned)
          /\ last.reached <=> last.was_state = "Active"
          /\ last.was_state # "Active" => last.res = "Panic"
          /\ last.reached => last.res \in {"Ok", "Err"}

\* a call made on an instance that is both finished and poisoned has aborted
C16_Witness ==
    /\ ApiCall
    /\ last.was_state = "Poisoned"
    /\ last.was_finished
    /\ last.res = "Panic"
    /\ hist.end_before

\* C17 as stated: a call that aborts leaves finished and poisoned as they were.
C17_AbortChangesNothing ==
    (ApiCall /\ last.res = "Panic") =>
        /\ finished = last.was_finished
        /\ poisoned = last.was_poisoned

\* C17 as amended: a call that aborts leaves poisoned as it was, and finished
\* as it was except that an end call aborted by the poisoned check has set
\* finished to true.
C17_AbortChangesOnlyFinished ==
    (ApiCall /\ last.res = "Panic") =>
        /\ poisoned = last.was_poisoned
        /\ finished = (last.was_finished \/ last.op = "end")
        /\ finished # last.was_finished => (last.was_poisoned /\ last.msg = MsgPoisoned)

\* an end call on a poisoned, unfinished rewriter aborted and set finished
C17_Witness ==
    /\ last.op = "end"
    /\ last.res = "Panic"
    /\ ~last.was_finished
    /\ finished

\* C18: poisoned is true only if an earlier write or end returned a
\* RewritingError, finished only if end has been called; both start false and
\* neither goes back to false.
C18_FlagsJustified ==
    /\ poisoned => hist.err_returned
    /\ finished => hist.end_called
    /\ (rewriter = "live" /\ hist.calls = 0) => (~finished /\ ~poisoned)
    /\ ApiCall =>
          /\ last.was_finished => finished
          /\ last.was_poisoned => poisoned

\* both flags are true and a further call has been made
C18_Witness ==
    /\ ApiCall
    /\ last.was_finished
    /\ last.was_poisoned
    /\ finished
    /\ poisoned

\* C19: the transform stream receives end at most once, no write after its
\* end, and no call after one of its calls returned an error.
C19_StreamCalls ==
    /\ \A i \in 1..Len(hist.stream_calls) :
          hist.stream_calls[i] = "end" => i = Len(hist.stream_calls)
    /\ (ApiCall /\ hist.err_before) => ~last.reached
    /\ (ApiCall /\ hist.end_before) => ~last.reached

\* the stream received writes and then end, and a later write did not reach it
C19_Witness ==
    /\ Len(hist.stream_calls) >= 3
    /\ hist.stream_calls[Len(hist.stream_calls)] = "end"
    /\ last.op = "write"
    /\ ~last.reached

----------------------------------------------------------------------------
(* The content handlers and the output *)

\* the slices handed to the sink, concatenated in order
RECURSIVE Flatten(_)
Flatten(slices) ==
    IF slices = <<>> THEN <<>> ELSE Head(slices) \o Flatten(Tail(slices))

\* every write and end so far returned Ok and end was among them
EndedOk == rewriter = "live" /\ hist.state = "Finished"

\* C11: when a content handler of any kind returns an error, the write or
\* end call during which it ran returns ContentHandlerError carrying the
\* value the handler returned, no handler runs after it, and the rewriter is
\* poisoned from then on
C11_HandlerErrorSurfaces ==
    \A i \in 1..Len(content_log) :
        content_log[i].res # <<>> =>
            /\ i = Len(content_log)
            /\ hist.first_err = [call |-> content_log[i].call,
                                 err |-> "ContentHandlerError",
                                 value |-> content_log[i].res]
            /\ poisoned

\* a handler for the text inside an element failed during a write, and the
\* next call was made
C11_Witness ==
    /\ content_log # <<>>
    /\ content_log[Len(content_log)].res = <<"el_text", 1>>
    /\ hist.first_err.value = <<"el_text", 1>>
    /\ hist.calls > hist.first_err.call
    /\ last.res = "Panic"

\* no content handler of any kind was registered
NoHandlers ==
    /\ hist.settings.element_content_handlers = <<>>
    /\ hist.settings.document_content_handlers = <<>>

\* C13: with no element and no document content handlers, the bytes handed
\* to the sink by the writes and the end that returned Ok, concatenated in
\* order, are the bytes written (before end, less what the stream still
\* buffers)
C13_Identity ==
    (rewriter = "live" /\ NoHandlers) =>
        /\ hist.state = "Active" => Flatten(output) \o stream.buffer = hist.input
        /\ hist.state = "Finished" => Flatten(output) = hist.input

\* a rewriter without handlers was ended after writes that split a construct,
\* and end emitted what the stream still buffered
C13_Witness ==
    /\ EndedOk
    /\ NoHandlers
    /\ last.op = "end"
    /\ last.buffered > 0
    /\ Len(hist.stream_calls) >= 3
    /\ Len(output) >= 2
    /\ Flatten(output) = hist.input

\* the run of a rewriter with the same settings that is given the whole input
\* as a single chunk and then ended
Whole ==
    LET w == WriteOn(FreshRunState, hist.input) IN
    IF w.err # "none" THEN w ELSE EndOn(w)

IsInserted(s) == s = Inserted

IsComment(s) ==
    Len(s) >= 2 /\ s[1] = "<" /\ s[2] = "!" /\ (Len(s) < 3 \/ s[3] # "D")

IsDoctype(s) == Len(s) >= 3 /\ s[1] = "<" /\ s[2] = "!" /\ s[3] = "D"

IsTag(s) ==
    NextLexeme(s).kind \in {"StartTag", "EndTag", "Other"} /\ NextLexeme(s).len = Len(s)

IsText(s) == ~IsInserted(s) /\ ~IsComment(s) /\ ~IsDoctype(s) /\ ~IsTag(s)

\* the text of a comment that was serialized with the suffix appended
CommentText(s) == SubSeq(s, 3, Len(s) - Len(CommentSuffix) - 1)

\* the handler invocations the slices of the output stand for, when the
\* comment handler appends the suffix to every comment and the text handler
\* inserts content after the last chunk of every text node
RECURSIVE ExpectedDocLog(_)
ExpectedDocLog(slices) ==
    IF slices = <<>> THEN <<>>
    ELSE LET s == Head(slices) IN
         (IF IsInserted(s) THEN <<[kind |-> "doc_text", data |-> <<>>]>>
          ELSE IF IsComment(s) THEN <<[kind |-> "doc_comments", data |-> CommentText(s)]>>
          ELSE IF IsText(s) THEN <<[kind |-> "doc_text", data |-> s]>>
          ELSE <<>>)
         \o ExpectedDocLog(Tail(slices))

\* the handler invocations made, with what each handler was given
DocLog == [i \in 1..Len(content_log) |->
              [kind |-> content_log[i].kind, data |-> content_log[i].data]]

\* the slices as they were before the handlers changed them
RECURSIVE Unmutated(_)
Unmutated(slices) ==
    IF slices = <<>> THEN <<>>
    ELSE LET s == Head(slices) IN
         (IF IsInserted(s) THEN <<>>
          ELSE IF IsComment(s) THEN <<"<", "!">> \o CommentText(s) \o <<">">>
          ELSE s)
         \o Unmutated(Tail(slices))

\* the settings of tests::rewrite_document_content: no element content
\* handlers, a document comment handler that appends to the text of the
\* comment and a document text handler that inserts content after the last
\* chunk of a text node
DocumentContentSettings ==
    /\ rewriter = "live"
    /\ hist.settings.element_content_handlers = <<>>
    /\ hist.settings.document_content_handlers =
           <<DocHandler("comments", "mut"), DocHandler("text", "mut")>>
    /\ hist.state \in {"Active", "Finished"}

\* C14: with no element selector registered, the document comment and text
\* handlers are invoked for every comment and every text chunk, in document
\* order; every comment in the output carries the handler's change at its
\* own position, and the content inserted after a text node directly follows
\* the last chunk of that text node and precedes the next tag or comment
C14_DocumentHandlers ==
    DocumentContentSettings =>
        /\ DocLog = ExpectedDocLog(output)
        /\ hist.state = "Active" => Unmutated(output) \o stream.buffer = hist.input
        /\ hist.state = "Finished" =>
               Unmutated(output) \in {hist.input, hist.input \o <<">">>}
        /\ \A i \in 1..Len(output) :
              /\ IsInserted(output[i]) =>
                    /\ i > 1 /\ IsText(output[i - 1])
                    /\ i < Len(output) =>
                          ~IsText(output[i + 1]) /\ ~IsInserted(output[i + 1])
              /\ IsText(output[i]) =>
                    IF i < Len(output)
                    THEN IsText(output[i + 1]) \/ IsInserted(output[i + 1])
                    ELSE hist.state = "Active" /\ stream.in_text
              /\ IsComment(output[i]) =>
                    SubSeq(output[i], Len(output[i]) - Len(CommentSuffix), Len(output[i]))
                        = CommentSuffix \o <<">">>

\* text split over two writes was followed by a comment: the inserted content
\* went out between them, and the run ended
C14_Witness ==
    /\ DocumentContentSettings
    /\ hist.state = "Finished"
    /\ \E i \in 3..(Len(output) - 1) :
          /\ IsText(output[i - 2]) /\ IsText(output[i - 1])
          /\ IsInserted(output[i])
          /\ IsComment(output[i + 1])

\* the comments and doctypes of the input buf, lexed as a whole: kind, data
\* and the offset of the last byte (0 for the unterminated construct that the
\* end of the input completes); base is the offset buf starts at
RECURSIVE Constructs(_, _, _)
Constructs(buf, base, eof) ==
    LET lx == NextLexeme(buf)
        e == EofLexeme(buf)
    IN
    IF lx.kind = "None" THEN <<>>
    ELSE IF lx.kind = "Incomplete"
    THEN IF eof /\ e.kind \in {"Doctype", "Comment"}
         THEN <<[kind |-> e.kind, data |-> e.name, stop |-> 0]>>
         ELSE <<>>
    ELSE (IF lx.kind \in {"Doctype", "Comment"}
          THEN <<[kind |-> lx.kind, data |-> lx.name, stop |-> base + lx.len]>>
          ELSE <<>>)
         \o Constructs(Drop(buf, lx.len), base + lx.len, eof)

\* the call that delivered the byte at that offset: the first call after
\* which the input written reaches the offset; the end call for offset 0
CallOf(stop) ==
    IF stop = 0 THEN hist.end_at
    ELSE CHOOSE c \in 1..Len(hist.offsets) :
            /\ hist.offsets[c] >= stop
            /\ \A d \in 1..(c - 1) : hist.offsets[d] < stop

\* the document content handlers registered for a construct of that kind,
\* in the order of the settings
HandlersFor(kind) ==
    LET dch == hist.settings.document_content_handlers
        want == IF kind = "Doctype" THEN "doctype" ELSE "comments"
    IN SelectSeq([i \in 1..Len(dch) |-> [id |-> i, kind |-> dch[i].kind]],
                 LAMBDA h : h.kind = want)

\* the invocations the constructs call for: one per construct and handler,
\* during the call that completed the construct, with its complete data
RECURSIVE ExpectedConstructLog(_)
ExpectedConstructLog(cs) ==
    IF cs = <<>> THEN <<>>
    ELSE LET c == Head(cs)
             hs == HandlersFor(c.kind)
         IN [i \in 1..Len(hs) |->
                [kind |-> IF c.kind = "Doctype" THEN "doctype" ELSE "doc_comments",
                 id |-> hs[i].id, call |-> CallOf(c.stop), data |-> c.data]]
            \o ExpectedConstructLog(Tail(cs))

\* the invocations of the doctype and document comment handlers made
ConstructLog ==
    LET picked == SelectSeq(content_log,
                            LAMBDA e : e.kind \in {"doctype", "doc_comments"})
    IN [i \in 1..Len(picked) |->
           [kind |-> picked[i].kind, id |-> picked[i].id,
            call |-> picked[i].call, data |-> picked[i].data]]

\* no call has failed: every write (and end, if made) returned Ok
NothingFailed == rewriter = "live" /\ hist.state \in {"Active", "Finished"}

\* C20, less what it says of the data at the end of the input: a doctype or
\* comment incomplete at the end of a write has no handler invoked during
\* that write; its handlers are invoked exactly once, with the complete data,
\* during the write that completes it, or during end when the input ends
\* inside it, with the data read so far
C20_InvokedOnceWhenComplete ==
    NothingFailed =>
        ConstructLog =
            ExpectedConstructLog(Constructs(hist.input, 0, hist.state = "Finished"))

\* C20 as stated: moreover the unterminated doctype reported during end has
\* no name and no ids
C20_IncompleteConstructs ==
    /\ C20_InvokedOnceWhenComplete
    /\ NothingFailed =>
          \A i \in 1..Len(content_log) :
              (content_log[i].kind = "doctype" /\ content_log[i].call = hist.end_at)
                  => content_log[i].data = <<>>

\* a doctype was split over two writes and reported during the second, and
\* an unterminated doctype was reported during end
C20_Witness ==
    /\ NothingFailed
    /\ hist.state = "Finished"
    /\ Len(content_log) = 2
    /\ content_log[1].kind = "doctype" /\ content_log[1].call = 2
    /\ content_log[1].data # <<>>
    /\ hist.offsets[1] >= 3 /\ SubSeq(hist.input, 1, 3) = <<"<", "!", "D">>
    /\ content_log[2].kind = "doctype" /\ content_log[2].call = hist.end_at

----------------------------------------------------------------------------
(* The memory limiter *)

\* C15: a live rewriter has exactly one memory limiter, created with the
\* ceiling max_allowed_memory_usage; the selector matching VM and the
\* transform stream hold that same limiter, so its counter is the memory
\* the two track together (the open elements and the buffered bytes), it
\* never exceeds the ceiling, and a request fails exactly because that sum
\* with the request added would exceed the ceiling
C15_OneSharedLimiter ==
    rewriter = "live" =>
        /\ Len(limiters) = 1
        /\ vm_limiter = stream_limiter
        /\ limiters[stream_limiter].max = Ceiling
        /\ limiters[stream_limiter].current = Len(stream.buffer) + Len(stream.stack)
        /\ limiters[stream_limiter].current <= Ceiling
        /\ last.err = "MemoryLimitExceeded" =>
              last.failure.buffer + last.failure.stack + last.failure.need > Ceiling
        /\ (last.reached /\ last.res = "Ok") => last.peak <= Ceiling

\* a write failed although neither the buffered bytes nor the open elements
\* alone, with the request added, exceed the ceiling: their sum does
C15_Witness ==
    /\ rewriter = "live"
    /\ last.op = "write"
    /\ last.err = "MemoryLimitExceeded"
    /\ last.failure.buffer > 0
    /\ last.failure.stack > 0
    /\ last.failure.buffer + last.failure.need <= Ceiling
    /\ last.failure.stack + last.failure.need <= Ceiling

----------------------------------------------------------------------------
(* The element handler on the universal selector *)

\* the start tags of the input buf, lexed as a whole: the name and the
\* offset of the last byte of each; base is the offset buf starts at
RECURSIVE StartTags(_, _)
StartTags(buf, base) ==
    LET lx == NextLexeme(buf) IN
    IF lx.kind \in {"None", "Incomplete"} THEN <<>>
    ELSE (IF lx.kind = "StartTag"
          THEN <<[name |-> lx.name, stop |-> base + lx.len]>> ELSE <<>>)
         \o StartTags(Drop(buf, lx.len), base + lx.len)

\* the input buf with every start tag given the attribute and followed by
\* the prepended Html, and everything else as it is
RECURSIVE Rewritten(_)
Rewritten(buf) ==
    LET lx == NextLexeme(buf) IN
    IF lx.kind \in {"None", "Incomplete"} THEN buf
    ELSE (IF lx.kind = "StartTag"
          THEN WithAttribute(Take(buf, lx.len)) \o Prepended
          ELSE Take(buf, lx.len))
         \o Rewritten(Drop(buf, lx.len))

\* the settings of tests::rewrite_start_tags, and no call has failed
UniversalHandlerSettings ==
    /\ NothingFailed
    /\ hist.settings.element_content_handlers = WithMutation(<<"*">>)
    /\ hist.settings.document_content_handlers = <<>>

\* C21: with one element handler on "*", the invocations of the handler are
\* those of the start tags of the input, one each during the call that
\* completes the tag, and none for a doctype, comment, text or end tag; the
\* output is the input with the attribute in every start tag and the
\* prepended Html right after it, before what follows the tag in the input
C21_UniversalHandler ==
    UniversalHandlerSettings =>
        LET tags == StartTags(hist.input, 0)
            consumed == Take(hist.input, Len(hist.input) - Len(stream.buffer))
        IN /\ Len(content_log) = Len(tags)
           /\ \A i \in 1..Len(content_log) :
                 /\ content_log[i].kind = "element"
                 /\ content_log[i].id = 1
                 /\ content_log[i].call = CallOf(tags[i].stop)
           /\ handlers_executed = [i \in 1..Len(tags) |-> <<i, 1>>]
           /\ Flatten(output) =
                  Rewritten(IF hist.state = "Finished" THEN hist.input ELSE consumed)
           /\ \A i \in 1..Len(output) :
                 output[i] = Prepended =>
                     /\ i > 1
                     /\ NextLexeme(output[i - 1]).kind = "StartTag"
                     /\ SubSeq(output[i - 1], Len(output[i - 1]) - 1, Len(output[i - 1]))
                            = Attribute \o <<">">>

\* a doctype, a comment with text, a start tag split over two writes and an
\* end tag went through: the handler ran once, for the start tag
C21_Witness ==
    /\ UniversalHandlerSettings
    /\ Len(content_log) = 1
    /\ content_log[1].call = 2
    /\ hist.offsets[1] = 2
    /\ Len(hist.stream_calls) = 4
    /\ \E i \in 1..Len(output) : IsDoctype(output[i]) \/ IsComment(output[i])
    /\ \E i \in 1..Len(output) : NextLexeme(output[i]).kind = "EndTag"
    /\ Prepended \in Range(output)

----------------------------------------------------------------------------
(* The test harness: ChunkedInput (tests/harness/parsing/chunked_input.rs) *)

\* the longest input string, in characters
MaxInputLen == 3

\* the number of init / unescape calls made on one ChunkedInput
MaxHarnessCalls == 3

\* the largest value CHUNK_SIZE is set to
MaxChunkSizeEnv == 3

\* the characters of the input strings: an ASCII letter, two non-ASCII
\* characters (U+00E9 and the yen sign U+00A5), an escape sequence that
\* stands for U+00E9 and a malformed escape sequence (both ASCII text)
Chars == {"a", "eacute", "yen", "esc", "bad"}

\* the encodings the harness initializes an input with
HarnessEncodings == {"utf-8", "windows-1252", "shift_jis"}

\* the bytes the encoder writes for one character, and whether the character
\* is unmappable (the encoder then writes an HTML entity)
encode_char(enc, c) ==
    CASE c = "a"   -> [bytes |-> <<"61">>, unmappable |-> FALSE]
      [] c = "esc" -> [bytes |-> <<"5C", "75">>, unmappable |-> FALSE]
      [] c = "bad" -> [bytes |-> <<"5C", "21">>, unmappable |-> FALSE]
      [] c = "eacute" ->
            IF enc = "utf-8" THEN [bytes |-> <<"C3", "A9">>, unmappable |-> FALSE]
            ELSE IF enc = "windows-1252" THEN [bytes |-> <<"E9">>, unmappable |-> FALSE]
            ELSE [bytes |-> <<"26", "23">>, unmappable |-> TRUE]
      [] OTHER ->
            IF enc = "utf-8" THEN [bytes |-> <<"C2", "A5">>, unmappable |-> FALSE]
            ELSE IF enc = "windows-1252" THEN [bytes |-> <<"A5">>, unmappable |-> FALSE]
            ELSE [bytes |-> <<"5C">>, unmappable |-> FALSE]

\* Encoding::encode: the bytes and had_unmappable_chars
RECURSIVE encode(_, _)
encode(enc, s) ==
    IF s = <<>> THEN [bytes |-> <<>>, had_unmappable_chars |-> FALSE]
    ELSE LET h == encode_char(enc, Head(s))
             t == encode(enc, Tail(s))
         IN [bytes |-> h.bytes \o t.bytes,
             had_unmappable_chars |-> h.unmappable \/ t.had_unmappable_chars]

\* Encoding::decode_without_bom_handling: byte 5C is the backslash in every
\* one of the encodings, also in Shift_JIS, where the yen sign was encoded to it
RECURSIVE decode_without_bom_handling(_, _)
decode_without_bom_handling(enc, b) ==
    IF b = <<>> THEN <<>>
    ELSE LET two == IF Len(b) >= 2 THEN SubSeq(b, 1, 2) ELSE <<>>
             one(c) == <<c>> \o decode_without_bom_handling(enc, Drop(b, 1))
             pair(c) == <<c>> \o decode_without_bom_handling(enc, Drop(b, 2))
         IN CASE b[1] = "61" -> one("a")
              [] two = <<"5C", "75">> -> pair("esc")
              [] two = <<"5C", "21">> -> pair("bad")
              [] b[1] = "5C" -> one("backslash")
              [] two = <<"26", "23">> -> pair("entity")
              [] enc = "utf-8" /\ two = <<"C3", "A9">> -> pair("eacute")
              [] enc = "utf-8" /\ two = <<"C2", "A5">> -> pair("yen")
              [] enc = "windows-1252" /\ b[1] = "E9" -> one("eacute")
              [] enc = "windows-1252" /\ b[1] = "A5" -> one("yen")
              [] OTHER -> one("replacement character")

\* slice::chunks(chunk_size), for chunk_size > 0: slices of chunk_size bytes,
\* the last one possibly shorter
RECURSIVE slice_chunks(_, _)
slice_chunks(bytes, chunk_size) ==
    IF bytes = <<>> THEN <<>>
    ELSE IF Len(bytes) <= chunk_size THEN <<bytes>>
    ELSE <<Take(bytes, chunk_size)>> \o slice_chunks(Drop(bytes, chunk_size), chunk_size)

\* String::unescape: every escape sequence is replaced by the character it
\* stands for; a malformed one makes it fail
RECURSIVE unescaped(_)
unescaped(s) ==
    IF s = <<>> THEN <<>>
    ELSE <<IF Head(s) = "esc" THEN "eacute" ELSE Head(s)>> \o unescaped(Tail(s))

string_unescape(s) ==
    IF "bad" \in Range(s) THEN [ok |-> FALSE, value |-> s]
    ELSE [ok |-> TRUE, value |-> unescaped(s)]

\* the values of the environment variable CHUNK_SIZE: unset, or set to a
\* number; -1 is a value that does not parse as usize
EnvValues ==
    {[set |-> FALSE, val |-> 0]}
    \cup {[set |-> TRUE, val |-> v] : v \in (-1)..MaxChunkSizeEnv}

MsgUnmappable == "There were unmappable characters"

MsgDeviation == "ASCII characters deviation"

MsgUnescapeAfterInit == "Input can't be unescaped after initialization"

\* the record of a call on the ChunkedInput
HarnessCall(op, res, msg) ==
    [NoHarnessCall EXCEPT !.op = op, !.res = res, !.msg = msg,
                          !.input_before = chunked_input.input,
                          !.chunks_before = chunked_input.chunks,
                          !.inits_before = harness_last.inits,
                          !.inits = harness_last.inits + (IF op = "init" THEN 1 ELSE 0),
                          !.calls = harness_last.calls + 1]

\* ChunkedInput::chunks
chunks == chunked_input.chunks

\* ChunkedInput::from(input)
from(input) ==
    /\ ~chunked_input.made
    /\ chunked_input' = [NoChunkedInput EXCEPT !.made = TRUE, !.input = input]
    /\ harness_last' = [NoHarnessCall EXCEPT !.op = "from"]
    /\ UNCHANGED rewriter_vars

\* ChunkedInput::init(encoding), with CHUNK_SIZE as env; pick is what
\* thread_rng().gen_range(1, len) returns when it is called
init(enc, env, pick) ==
    LET e == encode(enc, chunked_input.input)
        len == Len(e.bytes)
        random == ~env.set /\ len > 1
        chunk_size == IF env.set THEN env.val ELSE IF len > 1 THEN pick ELSE len
        call(res, msg) == [HarnessCall("init", res, msg) EXCEPT !.env = env,
                                                               !.encoding = enc]
    IN
    /\ chunked_input.made
    /\ harness_last.calls < MaxHarnessCalls
    /\ IF random THEN pick \in 1..(len - 1) ELSE pick = 0
    /\ IF e.had_unmappable_chars
       THEN /\ harness_last' = call("Err", MsgUnmappable)
            /\ UNCHANGED chunked_input
       ELSE IF chunked_input.input # decode_without_bom_handling(enc, e.bytes)
       THEN /\ harness_last' = call("Err", MsgDeviation)
            /\ UNCHANGED chunked_input
       ELSE IF env.set /\ env.val < 0
       THEN /\ harness_last' = call("Panic", "unwrap")
            /\ chunked_input' = [chunked_input EXCEPT !.encoding = enc]
       ELSE /\ harness_last' = [call("Ok", "none") EXCEPT !.chunk_size = chunk_size]
            /\ chunked_input' =
                  [chunked_input EXCEPT
                      !.encoding = enc,
                      !.chunks = IF chunk_size > 0
                                 THEN slice_chunks(e.bytes, chunk_size) ELSE @]
    /\ UNCHANGED rewriter_vars

\* ChunkedInput::unescape
unescape ==
    LET u == string_unescape(chunked_input.input) IN
    /\ chunked_input.made
    /\ harness_last.calls < MaxHarnessCalls
    /\ IF chunked_input.initialized
       THEN /\ harness_last' = HarnessCall("unescape", "Panic", MsgUnescapeAfterInit)
            /\ UNCHANGED chunked_input
       ELSE IF ~u.ok
       THEN /\ harness_last' = HarnessCall("unescape", "Err", "none")
            /\ UNCHANGED chunked_input
       ELSE /\ harness_last' = HarnessCall("unescape", "Ok", "none")
            /\ chunked_input' = [chunked_input EXCEPT !.input = u.value]
    /\ UNCHANGED rewriter_vars

\* the input strings
Inputs == SeqsUpTo(Chars, MaxInputLen)

NextHarness ==
    \/ \E input \in Inputs : from(input)
    \/ \E enc \in HarnessEncodings, env \in EnvValues,
          pick \in 0..(2 * MaxInputLen) : init(enc, env, pick)
    \/ unescape

SpecHarness == Init /\ [][NextHarness]_vars

\* C22: after a successful init, whatever CHUNK_SIZE is and whether or not
\* init was called before, the chunks concatenated are the input encoded in
\* the given encoding, no chunk is empty or longer than the chunk size
\* returned, and with CHUNK_SIZE unset and more than one byte the chunk size
\* is in [1, len) and there are at least two chunks
C22_ChunksCoverInput ==
    (harness_last.op = "init" /\ harness_last.res = "Ok") =>
        LET bytes == encode(harness_last.encoding, chunked_input.input).bytes IN
        /\ Flatten(chunks) = bytes
        /\ \A i \in 1..Len(chunks) :
              chunks[i] # <<>> /\ Len(chunks[i]) <= harness_last.chunk_size
        /\ (~harness_last.env.set /\ Len(bytes) > 1) =>
              /\ harness_last.chunk_size \in 1..(Len(bytes) - 1)
              /\ Len(chunks) >= 2

\* C23: an unescape called after init was called aborts with the message and
\* leaves the input string as it was
C23_UnescapeAfterInit ==
    (harness_last.op = "unescape" /\ harness_last.inits_before > 0) =>
        /\ harness_last.res = "Panic"
        /\ harness_last.msg = MsgUnescapeAfterInit
        /\ chunked_input.input = harness_last.input_before

====
